---- MODULE Spec2Model ----
\* Model of src/main.py: one synchronisation pass (main) of the Open Collective
\* -> Discord job, run repeatedly against the same SQLite file, and the pure
\* helpers it calls.
\*
\* Time is an integer number of milliseconds.  created_at is kept as that
\* integer both in the fetched frame and in the stored row: the text form
\* sqlite stores (datetime.isoformat(" "), always UTC) orders exactly as the
\* instants do, so the comparison of get_known_transactions is the integer one.
EXTENDS Integers, Sequences, FiniteSets, TLC

\* ---------------------------------------------------------------- bounds
MaxFeedLen == 2
MaxRows == 3
MaxKnownLen == 2

\* ------------------------------------------------------ program constants
LOOKBACK_HOURS == 200
MessageLimit == 2000

LookbackMs == LOOKBACK_HOURS * 3600 * 1000

\* ------------------------------------------------------------ input data
RECURSIVE Rep(_, _)
Rep(s, n) ==
    IF n = 0 THEN ""
    ELSE IF n % 2 = 0 THEN LET h == Rep(s, n \div 2) IN h \o h
    ELSE s \o Rep(s, n - 1)

\* A donor name long enough that its single line is exactly 2000 characters.
LongDonor == Rep("x", 1912)

Txn(i, t, d, c) == [id |-> i, created_at |-> t, from_account |-> d, amount_cents |-> c]

TA == Txn("a", 1200, "Alice", 500)
TB == Txn("b", 2700, "Bob", 1234)
TC == Txn("c", 2000, LongDonor, 500)
TA2 == Txn("a", 1200, "Alice", 705)

Txns == {TA, TB, TC, TA2}

SeqsUpTo(S, n) == UNION {[1..k -> S] : k \in 0..n}

\* The nodes a response of the remote can carry.
Feeds == SeqsUpTo(Txns, MaxFeedLen)

\* Instants at which datetime.now(UTC) is read.
Nows == {LookbackMs + 500, LookbackMs + 1500}

\* ------------------------------------------------------------------ state
VARIABLES
    pc,                  \* position of main(): "idle" when no run is in progress
    db,                  \* financials.db: [exists, pk, rows] of table transactions
    now,                 \* the wall clock as last read
    lookback_time,       \* main's local
    latest_transactions, \* main's local
    known_transactions,  \* main's local
    new_transactions,    \* main's local
    webhook,             \* contents delivered to Discord by the current run
    announced,           \* the rows of those contents, in message order
    saved,               \* save_transactions returned in the current run
    outcome,             \* how the last run ended
    failed_step,         \* the step that raised, when outcome = "error"
    sent_count,          \* N of "Saved and sent N new transactions."
    run_start_db,        \* db when the current run began
    persisted_before,    \* ids written to the table by earlier runs
    prev_remote,         \* nodes fetched by the previous run
    prev_now,            \* clock read by the previous run
    prev_outcome         \* outcome of the previous run

vars == <<pc, db, now, lookback_time, latest_transactions, known_transactions,
          new_transactions, webhook, announced, saved, outcome, failed_step,
          sent_count, run_start_db, persisted_before, prev_remote, prev_now,
          prev_outcome>>

locals == <<lookback_time, latest_transactions, known_transactions, new_transactions>>
history == <<run_start_db, persisted_before, prev_remote, prev_now, prev_outcome>>

\* ---------------------------------------------------------------- helpers
Ids(s) == {s[i].id : i \in DOMAIN s}
Rows(s) == {s[i] : i \in DOMAIN s}
Reverse(s) == [i \in 1..Len(s) |-> s[Len(s) + 1 - i]]

NoTable == [exists |-> FALSE, pk |-> FALSE, rows |-> <<>>]
EmptyTable == [exists |-> TRUE, pk |-> TRUE, rows |-> <<>>]

\* The table created without its PRIMARY KEY
setup_transaction_table_nokey(d) ==
    IF d.exists THEN d ELSE [exists |-> TRUE, pk |-> FALSE, rows |-> <<>>]

\* The table created afresh on every call (drop and create)
setup_transaction_table_recreate(d) == EmptyTable

\* setup_transaction_table: CREATE TABLE IF NOT EXISTS ... id TEXT PRIMARY KEY
setup_transaction_table(d) == IF d.exists THEN d ELSE EmptyTable

setup_database(d) == setup_transaction_table(d)

\* drop_transaction_table: DROP TABLE transactions; sqlite raises when the
\* table does not exist.
drop_transaction_table(d) ==
    IF d.exists THEN [ok |-> TRUE, db |-> NoTable]
    ELSE [ok |-> FALSE, db |-> d]

\* delete_all_transactions: DELETE FROM transactions; the table stays, with
\* its key or without; sqlite raises when the table does not exist.
delete_all_transactions(d) ==
    IF d.exists THEN [ok |-> TRUE, db |-> [d EXCEPT !.rows = <<>>]]
    ELSE [ok |-> FALSE, db |-> d]

\* get_open_collective_transactions: start_date.strftime("%Y-%m-%dT%H:%M:%SZ"),
\* the cutoff as sent to the remote, cut to whole seconds.
StartDate(t) == (t \div 1000) * 1000

\* get_known_transactions: SELECT * FROM transactions WHERE created_at > ?
get_known_transactions(cutoff, d) ==
    SelectSeq(d.rows, LAMBDA r : r.created_at > cutoff)

\* The filter without its negation: left[left["id"].isin(right["id"])]
find_new_transactions_isin(left, right) ==
    IF left = <<>> THEN <<>>
    ELSE SelectSeq(left, LAMBDA r : r.id \in Ids(right))

\* find_new_transactions: left[~left["id"].isin(right["id"])]
find_new_transactions(left, right) ==
    IF left = <<>> THEN <<>>
    ELSE SelectSeq(left, LAMBDA r : r.id \notin Ids(right))

\* No id occurs twice (the PRIMARY KEY of the table).
DistinctIds(s) == \A i, j \in DOMAIN s : s[i].id = s[j].id => i = j

\* Row-by-row inserts, each committed: the rows before the first conflict stay
save_transactions_partial(txs, d) ==
    IF ~d.exists
      THEN [ok |-> TRUE, db |-> [exists |-> TRUE, pk |-> FALSE, rows |-> txs]]
    ELSE LET bad == {i \in DOMAIN txs :
                        \/ txs[i].id \in Ids(d.rows)
                        \/ \E j \in 1..(i - 1) : txs[j].id = txs[i].id}
             stop == IF bad = {} THEN Len(txs) + 1
                     ELSE CHOOSE i \in bad : \A j \in bad : i <= j
         IN IF d.pk /\ bad # {}
              THEN [ok |-> FALSE,
                    db |-> [d EXCEPT !.rows = d.rows \o SubSeq(txs, 1, stop - 1)]]
              ELSE [ok |-> TRUE, db |-> [d EXCEPT !.rows = d.rows \o txs]]

\* INSERT OR IGNORE: a row whose id is already there is skipped silently
RECURSIVE InsertIgnoring(_, _)
InsertIgnoring(rows, txs) ==
    IF txs = <<>> THEN rows
    ELSE InsertIgnoring(IF Head(txs).id \in Ids(rows) THEN rows
                        ELSE Append(rows, Head(txs)), Tail(txs))

save_transactions_ignore(txs, d) ==
    IF ~d.exists
      THEN [ok |-> TRUE, db |-> [exists |-> TRUE, pk |-> FALSE, rows |-> txs]]
    ELSE IF d.pk
      THEN [ok |-> TRUE, db |-> [d EXCEPT !.rows = InsertIgnoring(d.rows, txs)]]
    ELSE [ok |-> TRUE, db |-> [d EXCEPT !.rows = d.rows \o txs]]

\* save_transactions: DataFrame.to_sql(if_exists="append", method="multi").
\* One INSERT of all rows inside one transaction: a primary-key conflict
\* raises and rolls the whole batch back.  pandas creates the table itself
\* (without a key) when it is missing.
save_transactions(txs, d) ==
    IF ~d.exists
      THEN [ok |-> TRUE, db |-> [exists |-> TRUE, pk |-> FALSE, rows |-> txs]]
    ELSE IF d.pk /\ (~DistinctIds(txs) \/ Ids(txs) \cap Ids(d.rows) # {})
      THEN [ok |-> FALSE, db |-> d]
    ELSE [ok |-> TRUE, db |-> [d EXCEPT !.rows = d.rows \o txs]]

\* f"{amount_cents / 100:.2f}"
TwoDigits(n) == IF n < 10 THEN "0" \o ToString(n) ELSE ToString(n)
Dollars(cents) == ToString(cents \div 100) \o "." \o TwoDigits(cents % 100)

\* int(created_at.floor("s").timestamp())
DonationTime(t) == t \div 1000

MessageLine(row) ==
    "Thank you **" \o row.from_account \o "** for your contribution of **$"
    \o Dollars(row.amount_cents) \o "**, <t:" \o ToString(DonationTime(row.created_at))
    \o ":R>! <:love:1104682659537485844>\n"

\* The rows in the order the loop of send_discord_transactions visits them.
MessageRows(txs) == Reverse(txs)

RECURSIVE Concat(_)
Concat(rows) == IF rows = <<>> THEN "" ELSE MessageLine(Head(rows)) \o Concat(Tail(rows))

Message(txs) == Concat(MessageRows(txs))

\* send_discord_transactions without the length check
SendDecisionUnchecked(txs) ==
    IF Len(Message(txs)) < 1 THEN "skip" ELSE "send"

\* send_discord_transactions up to the webhook call: what it decides to do.
SendDecision(txs) ==
    LET message == Message(txs) IN
    IF Len(message) < 1 THEN "skip"
    ELSE IF Len(message) >= MessageLimit THEN "raise"
    ELSE "send"

\* ------------------------------------------------------------------- Init
\* The database file either is fresh or already holds the (empty) table.
Init ==
    /\ pc = "idle"
    /\ db \in {NoTable, EmptyTable}
    /\ now = LookbackMs
    /\ lookback_time = 0
    /\ latest_transactions = <<>>
    /\ known_transactions = <<>>
    /\ new_transactions = <<>>
    /\ webhook = <<>>
    /\ announced = <<>>
    /\ saved = FALSE
    /\ outcome = "none"
    /\ failed_step = "none"
    /\ sent_count = 0
    /\ run_start_db = db
    /\ persisted_before = {}
    /\ prev_remote = <<>>
    /\ prev_now = LookbackMs
    /\ prev_outcome = "none"

\* ---------------------------------------------------------------- actions
Raise(step) ==
    /\ pc' = "idle"
    /\ outcome' = "error"
    /\ failed_step' = step

\* main() is entered.
StartRun ==
    /\ pc = "idle"
    /\ pc' = "drop"
    /\ run_start_db' = db
    /\ persisted_before' = persisted_before \cup (IF saved THEN Ids(new_transactions) ELSE {})
    /\ prev_remote' = latest_transactions
    /\ prev_now' = now
    /\ prev_outcome' = outcome
    /\ lookback_time' = 0
    /\ latest_transactions' = <<>>
    /\ known_transactions' = <<>>
    /\ new_transactions' = <<>>
    /\ webhook' = <<>>
    /\ announced' = <<>>
    /\ saved' = FALSE
    /\ outcome' = "running"
    /\ failed_step' = "none"
    /\ sent_count' = 0
    /\ UNCHANGED <<db, now>>

\* main with line 24 removed: the table of the earlier runs is kept
DropTransactionTableSkipped ==
    /\ pc = "drop"
    /\ pc' = "setup"
    /\ UNCHANGED <<db, now, locals, webhook, announced, saved, outcome,
                   failed_step, sent_count, history>>

\* main line 24
DropTransactionTable ==
    /\ pc = "drop"
    /\ LET r == drop_transaction_table(db) IN
         /\ db' = r.db
         /\ IF r.ok
              THEN pc' = "setup" /\ UNCHANGED <<outcome, failed_step>>
              ELSE Raise("drop")
    /\ UNCHANGED <<now, locals, webhook, announced, saved, sent_count, history>>

\* main line 25
SetupDatabase ==
    /\ pc = "setup"
    /\ db' = setup_database(db)
    /\ pc' = "lookback"
    /\ UNCHANGED <<now, locals, webhook, announced, saved, outcome, failed_step,
                   sent_count, history>>

\* main line 27
ComputeLookback ==
    /\ pc = "lookback"
    /\ \E t \in Nows :
         /\ t >= now
         /\ now' = t
         /\ lookback_time' = t - LookbackMs
    /\ pc' = "fetch"
    /\ UNCHANGED <<db, latest_transactions, known_transactions, new_transactions,
                   webhook, announced, saved, outcome, failed_step, sent_count, history>>

\* main line 29, the response carries nodes
FetchOk ==
    /\ pc = "fetch"
    /\ \E nodes \in Feeds : latest_transactions' = nodes
    /\ pc' = "known"
    /\ UNCHANGED <<db, now, lookback_time, known_transactions, new_transactions,
                   webhook, announced, saved, outcome, failed_step, sent_count, history>>

\* main line 29, raise_for_status raises or the response has "errors"
FetchFail ==
    /\ pc = "fetch"
    /\ Raise("fetch")
    /\ UNCHANGED <<db, now, locals, webhook, announced, saved, sent_count, history>>

\* main line 30
GetKnownTransactions ==
    /\ pc = "known"
    /\ known_transactions' = get_known_transactions(lookback_time, db)
    /\ pc' = "diff"
    /\ UNCHANGED <<db, now, lookback_time, latest_transactions, new_transactions,
                   webhook, announced, saved, outcome, failed_step, sent_count, history>>

\* main line 32
FindNewTransactions ==
    /\ pc = "diff"
    /\ new_transactions' = find_new_transactions(latest_transactions, known_transactions)
    /\ pc' = "branch"
    /\ UNCHANGED <<db, now, lookback_time, latest_transactions, known_transactions,
                   webhook, announced, saved, outcome, failed_step, sent_count, history>>

\* main line 40, the print raises (stdout cannot be written)
NoNewPrintFails ==
    /\ pc = "branch"
    /\ new_transactions = <<>>
    /\ Raise("print")
    /\ UNCHANGED <<db, now, locals, webhook, announced, saved, sent_count, history>>

\* main lines 34, 40
NoNewTransactions ==
    /\ pc = "branch"
    /\ new_transactions = <<>>
    /\ pc' = "idle"
    /\ outcome' = "no_new"
    /\ UNCHANGED <<db, now, locals, webhook, announced, saved, failed_step,
                   sent_count, history>>

\* main with lines 35 and 36 swapped: the send is reached before the save
SendBeforeSave ==
    /\ pc = "branch"
    /\ new_transactions # <<>>
    /\ pc' = "send"
    /\ UNCHANGED <<db, now, locals, webhook, announced, saved, outcome,
                   failed_step, sent_count, history>>

\* main lines 34-35
SaveTransactions ==
    /\ pc = "branch"
    /\ new_transactions # <<>>
    /\ LET r == save_transactions(new_transactions, db) IN
         /\ db' = r.db
         /\ IF r.ok
              THEN pc' = "send" /\ saved' = TRUE /\ UNCHANGED <<outcome, failed_step>>
              ELSE Raise("save") /\ UNCHANGED saved
    /\ UNCHANGED <<now, locals, webhook, announced, sent_count, history>>

\* send_discord_transactions lines 200-224: webhook.send returns, the message
\* is out (or the function returns at line 212, there being none to send)
SendDiscordTransactions ==
    /\ pc = "send"
    /\ SendDecision(new_transactions) # "raise"
    /\ IF SendDecision(new_transactions) = "send"
         THEN /\ webhook' = Append(webhook, Message(new_transactions))
              /\ announced' = announced \o MessageRows(new_transactions)
              /\ pc' = "sent"
         ELSE /\ UNCHANGED <<webhook, announced>>
              /\ pc' = "report"
    /\ UNCHANGED <<db, now, locals, saved, outcome, failed_step, sent_count, history>>

\* send_discord_transactions line 225: the print succeeds, the function returns
SendReturns ==
    /\ pc = "sent"
    /\ pc' = "report"
    /\ UNCHANGED <<db, now, locals, webhook, announced, saved, outcome, failed_step,
                   sent_count, history>>

\* send_discord_transactions line 225: the print raises after the message is
\* out; the exception leaves main at line 36
SendPrintFails ==
    /\ pc = "sent"
    /\ Raise("notify")
    /\ UNCHANGED <<db, now, locals, webhook, announced, saved, sent_count, history>>

\* main lines 37-38
ReportSavedAndSent ==
    /\ pc = "report"
    /\ pc' = "idle"
    /\ outcome' = "saved_sent"
    /\ sent_count' = Len(new_transactions)
    /\ UNCHANGED <<db, now, locals, webhook, announced, saved, failed_step, history>>

\* main line 37, the print raises
ReportPrintFails ==
    /\ pc = "report"
    /\ Raise("print")
    /\ UNCHANGED <<db, now, locals, webhook, announced, saved, sent_count, history>>

\* The length error caught and ignored: the run reports success regardless
SendTooLongSwallowed ==
    /\ pc = "send"
    /\ SendDecision(new_transactions) = "raise"
    /\ pc' = "report"
    /\ UNCHANGED <<db, now, locals, webhook, announced, saved, outcome, failed_step,
                   sent_count, history>>

\* main line 36, "Edge case, too many donors!"
SendTooLong ==
    /\ pc = "send"
    /\ SendDecision(new_transactions) = "raise"
    /\ Raise("notify")
    /\ UNCHANGED <<db, now, locals, webhook, announced, saved, sent_count, history>>

\* a rejected send that also takes the batch back out of the table
SendRejectedRollback ==
    /\ pc = "send"
    /\ SendDecision(new_transactions) = "send"
    /\ Raise("notify")
    /\ db' = [db EXCEPT !.rows = SubSeq(db.rows, 1, Len(db.rows) - Len(new_transactions))]
    /\ UNCHANGED <<now, locals, webhook, announced, saved, sent_count, history>>

\* main line 36, webhook.send raises
SendRejected ==
    /\ pc = "send"
    /\ SendDecision(new_transactions) = "send"
    /\ Raise("notify")
    /\ UNCHANGED <<db, now, locals, webhook, announced, saved, sent_count, history>>

\* The process dies between two statements, those inside
\* send_discord_transactions after the message is out included.
Crash ==
    /\ pc \notin {"idle"}
    /\ pc' = "idle"
    /\ outcome' = "crashed"
    /\ UNCHANGED <<db, now, locals, webhook, announced, saved, failed_step,
                   sent_count, history>>

Next ==
    \/ StartRun
    \/ DropTransactionTable
    \/ SetupDatabase
    \/ ComputeLookback
    \/ FetchOk
    \/ FetchFail
    \/ GetKnownTransactions
    \/ FindNewTransactions
    \/ NoNewTransactions
    \/ SaveTransactions
    \/ SendDiscordTransactions
    \/ SendTooLong
    \/ SendRejected
    \/ SendReturns
    \/ SendPrintFails
    \/ ReportSavedAndSent
    \/ ReportPrintFails
    \/ NoNewPrintFails
    \/ Crash

Spec == Init /\ [][Next]_vars

\* A started run keeps executing: main() is sequential code, each statement
\* returns or raises.
RunStep ==
    \/ DropTransactionTable
    \/ SetupDatabase
    \/ ComputeLookback
    \/ FetchOk
    \/ FetchFail
    \/ GetKnownTransactions
    \/ FindNewTransactions
    \/ NoNewTransactions
    \/ SaveTransactions
    \/ SendDiscordTransactions
    \/ SendTooLong
    \/ SendRejected
    \/ SendReturns
    \/ SendPrintFails
    \/ ReportSavedAndSent
    \/ ReportPrintFails
    \/ NoNewPrintFails

\* ------------------------------------- the ledger functions called directly
\* setup_database, save_transactions, get_known_transactions,
\* delete_all_transactions and drop_transaction_table called in any order on
\* the database file, with any batch and any clock reading.
InitStore ==
    /\ pc = "store"
    /\ db \in {NoTable, EmptyTable}
    /\ now = LookbackMs
    /\ lookback_time = 0
    /\ latest_transactions = <<>>
    /\ known_transactions = <<>>
    /\ new_transactions = <<>>
    /\ webhook = <<>>
    /\ announced = <<>>
    /\ saved = FALSE
    /\ outcome = "none"
    /\ failed_step = "none"
    /\ sent_count = 0
    /\ run_start_db = db
    /\ persisted_before = {}
    /\ prev_remote = <<>>
    /\ prev_now = LookbackMs
    /\ prev_outcome = "none"

storeFrame == <<pc, now, latest_transactions, webhook, announced, failed_step,
                sent_count, persisted_before, prev_remote, prev_now, prev_outcome>>

\* Each call leaves the record of that call only: its arguments, its result
\* and the table before and after.
CallSetupDatabase ==
    /\ pc = "store"
    /\ run_start_db' = db
    /\ db' = setup_database(db)
    /\ outcome' = "setup"
    /\ lookback_time' = 0
    /\ known_transactions' = <<>>
    /\ new_transactions' = <<>>
    /\ saved' = FALSE
    /\ UNCHANGED storeFrame

CallSaveTransactions ==
    /\ pc = "store"
    /\ \E txs \in Feeds :
         /\ Len(db.rows) + Len(txs) <= MaxRows
         /\ LET r == save_transactions(txs, db) IN
              /\ new_transactions' = txs
              /\ run_start_db' = db
              /\ db' = r.db
              /\ saved' = r.ok
    /\ outcome' = "save"
    /\ lookback_time' = 0
    /\ known_transactions' = <<>>
    /\ UNCHANGED storeFrame

CallGetKnownTransactions ==
    /\ pc = "store"
    /\ db.exists
    /\ \E t \in Nows :
         /\ lookback_time' = t - LookbackMs
         /\ known_transactions' = get_known_transactions(t - LookbackMs, db)
    /\ run_start_db' = db
    /\ outcome' = "query"
    /\ new_transactions' = <<>>
    /\ saved' = FALSE
    /\ UNCHANGED <<storeFrame, db>>

CallDeleteAllTransactions ==
    /\ pc = "store"
    /\ LET r == delete_all_transactions(db) IN
         /\ run_start_db' = db
         /\ db' = r.db
         /\ outcome' = IF r.ok THEN "delete" ELSE "delete_raised"
    /\ lookback_time' = 0
    /\ known_transactions' = <<>>
    /\ new_transactions' = <<>>
    /\ saved' = FALSE
    /\ UNCHANGED storeFrame

CallDropTransactionTable ==
    /\ pc = "store"
    /\ LET r == drop_transaction_table(db) IN
         /\ run_start_db' = db
         /\ db' = r.db
         /\ outcome' = IF r.ok THEN "drop" ELSE "drop_raised"
    /\ lookback_time' = 0
    /\ known_transactions' = <<>>
    /\ new_transactions' = <<>>
    /\ saved' = FALSE
    /\ UNCHANGED storeFrame

NextStore ==
    \/ CallSetupDatabase
    \/ CallSaveTransactions
    \/ CallGetKnownTransactions
    \/ CallDeleteAllTransactions
    \/ CallDropTransactionTable

SpecStore == InitStore /\ [][NextStore]_vars

\* ------------------------------------------ the Differ on arbitrary frames
InitDiffer ==
    /\ pc = "diff"
    /\ db = EmptyTable
    /\ now = LookbackMs
    /\ lookback_time = 0
    /\ latest_transactions \in Feeds
    /\ known_transactions \in SeqsUpTo(Txns, MaxKnownLen)
    /\ new_transactions = <<>>
    /\ webhook = <<>>
    /\ announced = <<>>
    /\ saved = FALSE
    /\ outcome = "running"
    /\ failed_step = "none"
    /\ sent_count = 0
    /\ run_start_db = db
    /\ persisted_before = {}
    /\ prev_remote = <<>>
    /\ prev_now = LookbackMs
    /\ prev_outcome = "none"

NextDiffer == FindNewTransactions

SpecDiffer == InitDiffer /\ [][NextDiffer]_vars

\* ----------------------------------------------------------------- claims
\* The last run got a response from the remote: it ended at or after the
\* branch of line 34 (the prints of lines 37 and 40 come after the fetch).
RunFetched ==
    \/ outcome \in {"no_new", "saved_sent"}
    \/ outcome = "error" /\ failed_step \in {"save", "notify", "print"}

\* The last run ended in a status print that raised (stdout not writable).
PrintRaised == outcome = "error" /\ failed_step = "print"

\* The last run ran to its end (it did not die half way).
RunEnded == pc = "idle" /\ outcome \in {"no_new", "saved_sent", "error"}

\* C1: an id persisted to the ledger by one run is never in the notification
\* sent by a later run.
C1_NeverRenotified == Ids(announced) \cap persisted_before = {}

\* C2: a run that follows a successful run and is given the same remote data
\* at the same clock reading finds nothing new: no insert, no notification,
\* and, stdout being writable, the no-new-transactions status.
C2_SecondRunFindsNothing ==
    (/\ pc = "idle"
     /\ RunFetched
     /\ prev_outcome \in {"no_new", "saved_sent"}
     /\ latest_transactions = prev_remote
     /\ now = prev_now)
    => /\ new_transactions = <<>>
       /\ ~saved
       /\ webhook = <<>>
       /\ ~PrintRaised => outcome = "no_new"

\* C3: within a run the send is reached only after save_transactions has
\* returned for the whole new set, and everything the run has announced is in
\* the ledger, in every state including those left by a crash.
C3_PersistBeforeNotify ==
    /\ (pc \in {"send", "sent", "report"} \/ webhook # <<>>) =>
          (saved /\ Rows(new_transactions) \subseteq Rows(db.rows))
    /\ Rows(announced) \subseteq Rows(db.rows)

C3_Witness ==
    /\ outcome = "crashed"
    /\ webhook # <<>>
    /\ announced # <<>>
    /\ saved
    /\ Rows(announced) \subseteq Rows(db.rows)

\* C4: when the notification step raises, the run ends with an error, not
\* with the success status, and the ledger holds every new transaction of
\* the run.
C4_NotifyFailureKeepsLedger ==
    failed_step = "notify" =>
        /\ outcome = "error"
        /\ sent_count = 0
        /\ new_transactions # <<>>
        /\ Rows(new_transactions) \subseteq Rows(db.rows)

C4_Witness ==
    /\ outcome = "error"
    /\ failed_step = "notify"
    /\ webhook = <<>>
    /\ SendDecision(new_transactions) = "send"
    /\ Rows(new_transactions) \subseteq Rows(db.rows)

\* C5: a run whose fetch or save step raises ends with an error and has sent
\* nothing, and after a failed fetch the ledger is as it was before the run.
C5_FetchOrSaveFailureAborts ==
    (outcome = "error" /\ failed_step \in {"fetch", "save"}) =>
        /\ webhook = <<>>
        /\ failed_step = "fetch" => db = run_start_db

\* C6: the rows of the ledger after a run include every row it held before
\* the run, unchanged.
C6_AppendOnly == RunEnded => Rows(run_start_db.rows) \subseteq Rows(db.rows)

\* C7: a run whose new set is empty has written nothing and sent nothing,
\* leaves the ledger as it found it and, stdout being writable, ends with the
\* no-new-transactions status; that status is given to no other run.
C7_EmptyNewSetIsNoOp ==
    /\ (RunEnded /\ RunFetched /\ new_transactions = <<>>) =>
          /\ ~saved
          /\ webhook = <<>>
          /\ db = run_start_db
          /\ ~PrintRaised => outcome = "no_new"
    /\ outcome = "no_new" => new_transactions = <<>>

\* C8: find_new_transactions(remote, known) is the subsequence of remote of
\* the rows whose id is not an id of known: the kept positions are exactly
\* those, in remote's order, repeated ids kept as often as they occur.
C8_DifferIsFilter ==
    pc = "branch" =>
        LET keep == {i \in DOMAIN latest_transactions :
                        \A j \in DOMAIN known_transactions :
                            known_transactions[j].id # latest_transactions[i].id}
        IN /\ Len(new_transactions) = Cardinality(keep)
           /\ \E f \in [DOMAIN new_transactions -> keep] :
                /\ \A k, l \in DOMAIN new_transactions : k < l => f[k] < f[l]
                /\ \A k \in DOMAIN new_transactions :
                     new_transactions[k] = latest_transactions[f[k]]

C8_Witness ==
    /\ pc = "branch"
    /\ known_transactions # <<>>
    /\ Len(latest_transactions) = 2
    /\ Len(new_transactions) = 1

\* C9: the message lists the new transactions oldest first.
C9_OldestFirst ==
    \A i, j \in DOMAIN announced :
        i < j => announced[i].created_at <= announced[j].created_at

\* C10: a run that has saved its new set and whose message is longer than
\* the limit ends with an error, has sent nothing, and the ledger holds all
\* its new rows.
C10_OversizeRaises ==
    (RunEnded /\ saved /\ Len(Message(new_transactions)) > MessageLimit) =>
        /\ outcome = "error"
        /\ failed_step = "notify"
        /\ webhook = <<>>
        /\ Rows(new_transactions) \subseteq Rows(db.rows)

C10_Witness ==
    /\ outcome = "error"
    /\ failed_step = "notify"
    /\ saved
    /\ Len(Message(new_transactions)) > MessageLimit
    /\ Rows(new_transactions) \subseteq Rows(db.rows)

\* C11: a save_transactions call that fails reports the failure and leaves
\* the table exactly as it was: no row of the batch is added and the row
\* with the conflicting id keeps its values; it fails whenever an id of the
\* batch is already in the keyed table or occurs twice in the batch.
C11_SaveAllOrNothing ==
    outcome = "save" =>
        /\ ~saved => db = run_start_db
        /\ (run_start_db.exists /\ run_start_db.pk
              /\ (~DistinctIds(new_transactions)
                    \/ Ids(new_transactions) \cap Ids(run_start_db.rows) # {}))
             => ~saved
        /\ saved => db.rows = run_start_db.rows \o new_transactions

C11_Witness ==
    /\ outcome = "save"
    /\ ~saved
    /\ run_start_db.rows # <<>>
    /\ Ids(new_transactions) \cap Ids(run_start_db.rows) # {}
    /\ \E i \in DOMAIN new_transactions :
         /\ new_transactions[i].id \notin Ids(run_start_db.rows)
         /\ \A j \in DOMAIN new_transactions :
              j > i => new_transactions[j].id \in Ids(run_start_db.rows)
    /\ db = run_start_db

\* C12: in every reachable state of any sequence of runs, whatever the feeds
\* (feeds that repeat an id included), no two rows of the ledger have the
\* same id.
C12_LedgerIdsUnique == DistinctIds(db.rows)

C12_Witness ==
    /\ pc = "idle"
    /\ outcome = "error"
    /\ failed_step = "save"
    /\ ~DistinctIds(latest_transactions)
    /\ DistinctIds(db.rows)

\* C13: a setup_database call leaves the table existing; on a table that
\* already exists it changes nothing, rows included; a further call changes
\* nothing more.
C13_SetupIdempotent ==
    outcome = "setup" =>
        /\ db.exists
        /\ db.rows = run_start_db.rows
        /\ run_start_db.exists => db = run_start_db
        /\ setup_database(db) = db

C13_Witness ==
    /\ outcome = "setup"
    /\ run_start_db.exists
    /\ run_start_db.rows # <<>>
    /\ db = run_start_db

\* How often an id occurs in a frame.
Count(frame, id) == Cardinality({i \in DOMAIN frame : frame[i].id = id})

\* The not-yet-known ids the last fetch returned more than once.
RepeatedNewIds ==
    {id \in Ids(latest_transactions) :
        Count(latest_transactions, id) >= 2 /\ id \notin Ids(known_transactions)}

\* C14 as stated: when a fetch returns a not-yet-known id twice, both copies
\* pass the Differ, both are announced by that run, and the ledger ends up
\* with exactly one row for the id.
C14_BothAnnouncedOneStored ==
    (RunEnded /\ RunFetched) =>
        \A id \in RepeatedNewIds :
            /\ Count(new_transactions, id) = Count(latest_transactions, id)
            /\ Count(announced, id) = Count(latest_transactions, id)
            /\ Count(db.rows, id) = 1

\* C14 amended: when a fetch returns a not-yet-known id twice, both copies
\* pass the Differ, save_transactions fails for the whole batch, the run ends
\* with an error having announced nothing, and the ledger holds no row for
\* the id.
C14_RepeatedIdAbortsRun ==
    (RunEnded /\ RunFetched) =>
        \A id \in RepeatedNewIds :
            /\ Count(new_transactions, id) = Count(latest_transactions, id)
            /\ outcome = "error"
            /\ failed_step = "save"
            /\ ~saved
            /\ webhook = <<>>
            /\ announced = <<>>
            /\ Count(db.rows, id) = 0

C14_Witness ==
    /\ RunEnded
    /\ RepeatedNewIds # {}
    /\ failed_step = "save"
    /\ Len(new_transactions) >= 2
    /\ webhook = <<>>

\* C15: a run that starts on a database without the transactions table
\* creates the table and goes on to the fetch step.
C15_FreshDatabaseProceeds ==
    (RunEnded /\ ~run_start_db.exists) =>
        /\ db.exists
        /\ failed_step \notin {"drop", "setup"}

\* C17: a call sends at most one message, with one line per transaction,
\* nothing for zero transactions, and raises for length only above the
\* limit, so a message of exactly 2000 characters is sent.
C17_SendsUpToLimit ==
    /\ Len(webhook) <= 1
    /\ webhook # <<>> =>
          /\ webhook[1] = Message(new_transactions)
          /\ Len(announced) = Len(new_transactions)
    /\ SendDecision(<<>>) = "skip"
    /\ (pc = "send" /\ Len(Message(new_transactions)) <= MessageLimit) =>
          SendDecision(new_transactions) = "send"

\* A fetched transaction inside the fetch window: created at or after the
\* cutoff as the request carries it (whole seconds).
InFetchWindow(t) == t.created_at >= StartDate(lookback_time)

Rank(p) ==
    CASE p = "idle" -> 0
      [] p = "drop" -> 1
      [] p = "setup" -> 2
      [] p = "lookback" -> 3
      [] p = "fetch" -> 4
      [] p = "known" -> 5
      [] p = "diff" -> 6
      [] p = "branch" -> 7
      [] p = "send" -> 8
      [] p = "sent" -> 9
      [] p = "report" -> 10

\* What each way of ending says about the run.
OutcomeMatchesRun ==
    /\ outcome = "saved_sent" =>
          /\ pc = "idle"
          /\ saved
          /\ new_transactions # <<>>
          /\ Len(webhook) = 1
          /\ sent_count = Len(new_transactions)
          /\ failed_step = "none"
    /\ outcome = "no_new" =>
          /\ pc = "idle"
          /\ ~saved
          /\ webhook = <<>>
          /\ sent_count = 0
          /\ failed_step = "none"
    /\ outcome = "error" =>
          /\ pc = "idle"
          /\ failed_step \in {"drop", "fetch", "save", "notify", "print"}
          /\ sent_count = 0
    /\ (pc = "idle" /\ outcome \notin {"none", "crashed"}) =>
          outcome \in {"no_new", "saved_sent", "error"}

\* No step of a run is taken a second time: a run only moves forward.
NoRetry == (pc # "idle" /\ pc' # "idle") => Rank(pc') > Rank(pc)

\* A run in progress always has a next statement to execute.
NeverStuck == pc # "idle" => ENABLED RunStep

\* C16: every started run ends (it is never stuck and only moves forward
\* through the finitely many statements of main, so no step is retried), and
\* it ends with the no-new-transactions status, the saved-and-sent-N status
\* or an error; the saved-and-sent-N status only after both the save and the
\* send succeeded, with N the size of the new set.
C16_RunEndsOnceInOneOutcome ==
    /\ []OutcomeMatchesRun
    /\ []NeverStuck
    /\ [][NoRetry]_vars

C16_Witness ==
    /\ pc = "idle"
    /\ outcome = "saved_sent"
    /\ sent_count = 2
    /\ Len(new_transactions) = 2
    /\ Len(webhook) = 1
    /\ saved

====
